---- MODULE Spec2Model ----
(***************************************************************************)
(* A model of packages/core/src/utils/logger.ts: the Logger class, its     *)
(* NoopLogger subclass, the three module-level "-once" sets and the free   *)
(* function printServerUrls.                                               *)
(*                                                                         *)
(* JavaScript values of mixed type are encoded as strings: an option that  *)
(* is not an own property of its object is "absent", the other values of   *)
(* a boolean option are "undefined", "true" and "false".  A string is a    *)
(* sequence of tokens, so that concatenation is sequence concatenation.    *)
(* Styling (the colors.* transforms, the brand prefix) only decorates the  *)
(* text and is left out: a written line carries the value handed to the    *)
(* colour transform.                                                       *)
(*                                                                         *)
(* Every call runs to completion in one step (the code is synchronous).    *)
(* The variables call, emitted, result and loggerCalls describe the most   *)
(* recent step: the call made, the console and process events it caused,   *)
(* in order, how it ended, and the calls it made on its logger argument.   *)
(***************************************************************************)
EXTENDS Integers, Sequences, FiniteSets, TLC

VARIABLES
  loggers,            \* the Logger instances constructed so far, in order
  isTTY,              \* process.stdout.isTTY
  CI,                 \* process.env.CI is set
  warnOnceMessages,   \* module-level Set
  infoOnceMessages,   \* module-level Set
  errorOnceMessages,  \* module-level Set
  errs,               \* the Error objects callers hold: id -> fields
  status,             \* "running" | "exited"
  exitCode,           \* the status process.exit was called with
  call,               \* the most recent step
  emitted,            \* its console/process events, in order
  result,             \* how it ended
  loggerCalls         \* the calls printServerUrls made on its logger

vars == <<loggers, isTTY, CI, warnOnceMessages, infoOnceMessages,
          errorOnceMessages, errs, status, exitCode, call, emitted, result,
          loggerCalls>>

-----------------------------------------------------------------------------
(* Bounds *)

MaxLoggers == 2
MaxCauseAppends == 1
MaxUrls == 2
MaxRank == 1

-----------------------------------------------------------------------------
(* Values *)

Levels == {"trace", "debug", "info", "warn", "error"}

Kinds == {"Logger", "NoopLogger"}

Truthy(v) == v = "true"

DefaultLevelValues ==
  [trace |-> 0, debug |-> 1, info |-> 2, warn |-> 3, error |-> 4]

LoggerOptions(exit, allowClearScreen) ==
  [exit |-> exit, allowClearScreen |-> allowClearScreen]

NoOptions == LoggerOptions("absent", "absent")

\* an ErrorOptions argument; arg = FALSE: the argument was not passed
ErrorOptions(exit, e, error) ==
  [arg |-> TRUE, exit |-> exit, e |-> e, error |-> error]

NoArg == [arg |-> FALSE, exit |-> "absent", e |-> "absent", error |-> "absent"]

\* cause errors: K1 has a stack, K2 has none, K3 has the empty stack ''
Causes == {"K1", "K2", "K3"}

CauseHasStack(k) == k \in {"K1", "K3"}

CauseStack(k) == IF k = "K1" THEN <<"K1.stack">> ELSE <<>>

CauseString(k) == <<"Error: ", k>>

CausedBy == "\nCaused by: "

Str(s) == [t |-> "str", v |-> s]

Err(id) == [t |-> "err", v |-> <<id>>]

NoMessage == [t |-> "none", v |-> <<>>]

ErrIds == {"E1"}

StrMessages == {Str(<<"boom">>), Str(<<"m2">>)}

Messages == StrMessages \cup {Err(id) : id \in ErrIds}

LocalUrls == {"http://localhost:3000/", "http://127.0.0.1:3000/"}

NetworkUrls == {"http://192.168.0.2:3000/"}

NoUrls == [local |-> <<>>, network |-> <<>>]

NoThrown == [type |-> "none", ref |-> "none", message |-> <<>>, cause |-> "unset"]

Call(op, logger, message, options) ==
  [op |-> op, logger |-> logger, message |-> message, options |-> options,
   urls |-> NoUrls, host |-> "undefined"]

-----------------------------------------------------------------------------
(* Console and process events *)

ConsoleStream(method) ==
  IF method \in {"warn", "error"} THEN "stderr" ELSE "stdout"

Write(method, level, isError, text) ==
  [kind |-> "write", method |-> method, stream |-> ConsoleStream(method),
   level |-> level, isError |-> isError, text |-> text, code |-> 0]

clearScreen ==
  <<[kind |-> "clear", method |-> "none", stream |-> "stdout",
     level |-> "none", isError |-> FALSE, text |-> <<>>, code |-> 0]>>

ProcessExit(code) ==
  [kind |-> "exit", method |-> "none", stream |-> "none",
   level |-> "none", isError |-> FALSE, text |-> <<>>, code |-> code]

-----------------------------------------------------------------------------
(* class Logger *)

\* new Logger(options, levelValues): canClearScreen and clear are fixed here
Constructor(kind, options, levelValues) ==
  LET canClear == Truthy(options.allowClearScreen) /\ isTTY /\ ~CI
  IN [kind |-> kind, options |-> options, levelValues |-> levelValues,
      canClearScreen |-> canClear,
      clear |-> IF canClear THEN "clearScreen" ELSE "noop"]

LOGGER_METHOD == [info |-> "log", warn |-> "warn", error |-> "error"]

\* mutant: the lookup never finds the level, every level uses "log"
loggerMethod_AlwaysLog(level) == "log"

loggerMethod(level) ==
  IF level \in DOMAIN LOGGER_METHOD THEN LOGGER_METHOD[level] ELSE "log"

\* mutant: a real threshold, the rank of info
PassesFilter_Threshold(l, level) == l.levelValues[level] >= l.levelValues["info"]

\* the level filter of logMessage
PassesFilter(l, level) == l.levelValues[level] <= l.levelValues[level]

\* this.clear()
Clear(l) == IF l.clear = "clearScreen" THEN clearScreen ELSE <<>>

\* mutant: the flag is recomputed from the environment at each call
ClearIfEnabled_Recomputed(l) ==
  IF Truthy(l.options.allowClearScreen) /\ isTTY /\ ~CI THEN clearScreen ELSE <<>>

\* this.canClearScreen && this.clear()
ClearIfEnabled(l) == IF l.canClearScreen THEN Clear(l) ELSE <<>>

\* the events of one logMessage call
logMessage(l, level, isError, text) ==
  IF PassesFilter(l, level)
  THEN ClearIfEnabled(l) \o <<Write(loggerMethod(level), level, isError, text)>>
  ELSE <<>>

\* the effect of a call that does nothing and returns
Skip ==
  [events |-> <<>>, outcome |-> "returned", value |-> "void",
   thrown |-> NoThrown, code |-> exitCode, errs |-> errs,
   warnOnce |-> warnOnceMessages, infoOnce |-> infoOnceMessages,
   errorOnce |-> errorOnceMessages, loggerCalls |-> <<>>]

Logger_trace(l, message) ==
  [Skip EXCEPT !.events = logMessage(l, "trace", FALSE, message.v)]

Logger_debug(l, message) ==
  [Skip EXCEPT !.events = logMessage(l, "debug", FALSE, message.v)]

Logger_info(l, message) ==
  [Skip EXCEPT !.events = logMessage(l, "info", FALSE, message.v)]

Logger_warn(l, message) ==
  [Skip EXCEPT !.events = logMessage(l, "warn", FALSE, message.v)]

\* mutant: the spread is written the other way round, so the constructor's
\* exit option overrides the per-call one
EffectiveExit_OptionsLast(l, errorOptions) ==
  IF l.options.exit # "absent"
  THEN l.options.exit
  ELSE errorOptions.exit

\* { ...this.options, ...errorOptions }.exit: an own property of the
\* per-call options, whatever its value, overrides the constructor's
EffectiveExit(l, errorOptions) ==
  IF errorOptions.arg /\ errorOptions.exit # "absent"
  THEN errorOptions.exit
  ELSE l.options.exit

\* errorOptions?.e || errorOptions?.error ("absent": undefined)
CauseError(errorOptions) ==
  IF errorOptions.e # "absent" THEN errorOptions.e ELSE errorOptions.error

\* mutant: `causeError.stack || causeError`, which skips an empty stack
CauseText_Or(k) ==
  IF CauseHasStack(k) /\ CauseStack(k) # <<>>
  THEN CauseStack(k)
  ELSE CauseString(k)

\* `${causeError.stack ?? causeError}`
CauseText(k) == IF CauseHasStack(k) THEN CauseStack(k) ELSE CauseString(k)

\* the message of the error after the "Caused by" part is appended
ErrorMessage(message, errorOptions) ==
  LET base == IF message.t = "str" THEN message.v ELSE errs[message.v[1]].message
      cause == CauseError(errorOptions)
  IN IF cause # "absent" THEN base \o <<CausedBy>> \o CauseText(cause) ELSE base

Logger_error(l, message, errorOptions) ==
  LET text == ErrorMessage(message, errorOptions)
      heap == IF message.t = "err"
              THEN [errs EXCEPT ![message.v[1]].message = text]
              ELSE errs
      lines == logMessage(l, "error", TRUE, text)
  IN IF Truthy(EffectiveExit(l, errorOptions))
     THEN [Skip EXCEPT !.events = lines \o <<ProcessExit(1)>>,
                       !.outcome = "exited", !.code = 1, !.errs = heap]
     ELSE [Skip EXCEPT !.events = lines, !.errs = heap]

\* mutant: infoOnce looks the message up in the warn set
Logger_infoOnce_WarnSet(l, message) ==
  IF message \notin warnOnceMessages
  THEN [Logger_info(l, message) EXCEPT
          !.infoOnce = infoOnceMessages \cup {message}]
  ELSE Skip

Logger_infoOnce(l, message) ==
  IF message \notin infoOnceMessages
  THEN [Logger_info(l, message) EXCEPT
          !.infoOnce = infoOnceMessages \cup {message}]
  ELSE Skip

\* mutant: warnOnce forgets to record the message
Logger_warnOnce_NoAdd(l, message) ==
  IF message \notin warnOnceMessages THEN Logger_warn(l, message) ELSE Skip

Logger_warnOnce(l, message) ==
  IF message \notin warnOnceMessages
  THEN [Logger_warn(l, message) EXCEPT
          !.warnOnce = warnOnceMessages \cup {message}]
  ELSE Skip

Logger_errorOnce(l, message) ==
  IF message \notin errorOnceMessages
  THEN [Logger_error(l, message, NoArg) EXCEPT
          !.errorOnce = errorOnceMessages \cup {message}]
  ELSE Skip

Logger_hasErrorLogged(l, message) ==
  [Skip EXCEPT !.value = IF message \in errorOnceMessages THEN "true" ELSE "false"]

Logger_hasWarnLogged(l, message) ==
  [Skip EXCEPT !.value = IF message \in warnOnceMessages THEN "true" ELSE "false"]

-----------------------------------------------------------------------------
(* class NoopLogger extends Logger *)

\* reading _errorOptions.exit of an omitted argument throws a TypeError
TypeErrorThrown ==
  [type |-> "TypeError", ref |-> "new", message |-> <<>>, cause |-> "unset"]

\* mutant: only the field e is read as the cause
NoopLogger_error_OnlyE(l, message, errorOptions) ==
  IF ~errorOptions.arg
  THEN [Skip EXCEPT !.outcome = "threw", !.thrown = TypeErrorThrown]
  ELSE IF Truthy(errorOptions.exit)
  THEN LET cause == errorOptions.e
           old == IF message.t = "err"
                  THEN errs[message.v[1]]
                  ELSE [message |-> message.v, cause |-> "unset"]
           e == IF cause # "absent" THEN [old EXCEPT !.cause = cause] ELSE old
       IN [Skip EXCEPT
             !.outcome = "threw",
             !.thrown = [type |-> "Error",
                         ref |-> IF message.t = "err" THEN message.v[1] ELSE "new",
                         message |-> e.message, cause |-> e.cause],
             !.errs = IF message.t = "err"
                      THEN [errs EXCEPT ![message.v[1]] = e]
                      ELSE errs]
  ELSE Skip

NoopLogger_error(l, message, errorOptions) ==
  IF ~errorOptions.arg
  THEN [Skip EXCEPT !.outcome = "threw", !.thrown = TypeErrorThrown]
  ELSE IF Truthy(errorOptions.exit)
  THEN LET cause == CauseError(errorOptions)
           old == IF message.t = "err"
                  THEN errs[message.v[1]]
                  ELSE [message |-> message.v, cause |-> "unset"]
           e == IF cause # "absent" THEN [old EXCEPT !.cause = cause] ELSE old
       IN [Skip EXCEPT
             !.outcome = "threw",
             !.thrown = [type |-> "Error",
                         ref |-> IF message.t = "err" THEN message.v[1] ELSE "new",
                         message |-> e.message, cause |-> e.cause],
             !.errs = IF message.t = "err"
                      THEN [errs EXCEPT ![message.v[1]] = e]
                      ELSE errs]
  ELSE Skip

NoopLogger_hasErrorLogged(l, message) == [Skip EXCEPT !.value = "false"]

NoopLogger_hasWarnLogged(l, message) == [Skip EXCEPT !.value = "false"]

-----------------------------------------------------------------------------
(* Method dispatch on the instance's class *)

trace(l, message) ==
  IF l.kind = "NoopLogger" THEN Skip ELSE Logger_trace(l, message)

debug(l, message) ==
  IF l.kind = "NoopLogger" THEN Skip ELSE Logger_debug(l, message)

info(l, message) ==
  IF l.kind = "NoopLogger" THEN Skip ELSE Logger_info(l, message)

warn(l, message) ==
  IF l.kind = "NoopLogger" THEN Skip ELSE Logger_warn(l, message)

error(l, message, errorOptions) ==
  IF l.kind = "NoopLogger"
  THEN NoopLogger_error(l, message, errorOptions)
  ELSE Logger_error(l, message, errorOptions)

infoOnce(l, message) ==
  IF l.kind = "NoopLogger" THEN Skip ELSE Logger_infoOnce(l, message)

warnOnce(l, message) ==
  IF l.kind = "NoopLogger" THEN Skip ELSE Logger_warnOnce(l, message)

errorOnce(l, message) ==
  IF l.kind = "NoopLogger" THEN Skip ELSE Logger_errorOnce(l, message)

hasErrorLogged(l, message) ==
  IF l.kind = "NoopLogger"
  THEN NoopLogger_hasErrorLogged(l, message)
  ELSE Logger_hasErrorLogged(l, message)

hasWarnLogged(l, message) ==
  IF l.kind = "NoopLogger"
  THEN NoopLogger_hasWarnLogged(l, message)
  ELSE Logger_hasWarnLogged(l, message)

-----------------------------------------------------------------------------
(* printServerUrls(urls, optionsHost, logger) *)

LocalLine(url) == Str(<<"Local", ":   ", url>>)

NetworkLine(url) == Str(<<"Network", ": ", url>>)

HintLine == Str(<<"  Network: use ", "--host", " to expose">>)

\* mutant: the hint is printed for any falsy host option (!optionsHost)
UrlMessages_FalsyHost(urls, optionsHost) ==
  [i \in 1..Len(urls.local) |-> LocalLine(urls.local[i])]
  \o [i \in 1..Len(urls.network) |-> NetworkLine(urls.network[i])]
  \o (IF Len(urls.network) = 0 /\ optionsHost \in {"undefined", "false"}
      THEN <<HintLine>> ELSE <<>>)

\* the messages handed to logger.info, in call order
UrlMessages(urls, optionsHost) ==
  [i \in 1..Len(urls.local) |-> LocalLine(urls.local[i])]
  \o [i \in 1..Len(urls.network) |-> NetworkLine(urls.network[i])]
  \o (IF Len(urls.network) = 0 /\ optionsHost = "undefined"
      THEN <<HintLine>> ELSE <<>>)

\* the console events of calling logger.info on each message in turn
RECURSIVE InfoEach(_, _)
InfoEach(l, messages) ==
  IF messages = <<>> THEN <<>>
  ELSE info(l, Head(messages)).events \o InfoEach(l, Tail(messages))

printServerUrls(urls, optionsHost, l) ==
  LET messages == UrlMessages(urls, optionsHost)
  IN [Skip EXCEPT
        !.loggerCalls = [i \in 1..Len(messages) |->
                           [method |-> "info", message |-> messages[i]]],
        !.events = InfoEach(l, messages)]

-----------------------------------------------------------------------------
(* Steps *)

LoggerIds == 1..Len(loggers)

ReturnedVoid == [outcome |-> "returned", value |-> "void", thrown |-> NoThrown]

\* the state after a call with effect e
Apply(c, e) ==
  /\ status = "running"
  /\ call' = c
  /\ emitted' = e.events
  /\ result' = [outcome |-> e.outcome, value |-> e.value, thrown |-> e.thrown]
  /\ errs' = e.errs
  /\ warnOnceMessages' = e.warnOnce
  /\ infoOnceMessages' = e.infoOnce
  /\ errorOnceMessages' = e.errorOnce
  /\ loggerCalls' = e.loggerCalls
  /\ status' = IF e.outcome = "exited" THEN "exited" ELSE status
  /\ exitCode' = e.code
  /\ UNCHANGED <<loggers, isTTY, CI>>

NewLogger(kind, options, levelValues) ==
  /\ status = "running"
  /\ Len(loggers) < MaxLoggers
  /\ loggers' = Append(loggers, Constructor(kind, options, levelValues))
  /\ call' = Call("new", Len(loggers) + 1, NoMessage, NoArg)
  /\ emitted' = <<>>
  /\ result' = ReturnedVoid
  /\ loggerCalls' = <<>>
  /\ UNCHANGED <<isTTY, CI, warnOnceMessages, infoOnceMessages,
                 errorOnceMessages, errs, status, exitCode>>

\* the environment changes under the running process
SetEnv(tty, ci) ==
  /\ status = "running"
  /\ <<tty, ci>> # <<isTTY, CI>>
  /\ isTTY' = tty
  /\ CI' = ci
  /\ call' = Call("env", 0, NoMessage, NoArg)
  /\ emitted' = <<>>
  /\ result' = ReturnedVoid
  /\ loggerCalls' = <<>>
  /\ UNCHANGED <<loggers, warnOnceMessages, infoOnceMessages,
                 errorOnceMessages, errs, status, exitCode>>

Trace(i, m) == Apply(Call("trace", i, m, NoArg), trace(loggers[i], m))

Debug(i, m) == Apply(Call("debug", i, m, NoArg), debug(loggers[i], m))

Info(i, m) == Apply(Call("info", i, m, NoArg), info(loggers[i], m))

Warn(i, m) == Apply(Call("warn", i, m, NoArg), warn(loggers[i], m))

\* the number of "Caused by" parts a message holds
CauseAppends(text) == Cardinality({k \in DOMAIN text : text[k] = CausedBy})

\* an Error object's message grows with each cause appended to it
MayAppend(m, o) ==
  IF m.t = "str" \/ CauseError(o) = "absent"
  THEN TRUE
  ELSE CauseAppends(errs[m.v[1]].message) < MaxCauseAppends

Error(i, m, o) ==
  /\ MayAppend(m, o)
  /\ Apply(Call("error", i, m, o), error(loggers[i], m, o))

InfoOnce(i, m) == Apply(Call("infoOnce", i, m, NoArg), infoOnce(loggers[i], m))

WarnOnce(i, m) == Apply(Call("warnOnce", i, m, NoArg), warnOnce(loggers[i], m))

ErrorOnce(i, m) == Apply(Call("errorOnce", i, m, NoArg), errorOnce(loggers[i], m))

HasErrorLogged(i, m) ==
  Apply(Call("hasErrorLogged", i, m, NoArg), hasErrorLogged(loggers[i], m))

HasWarnLogged(i, m) ==
  Apply(Call("hasWarnLogged", i, m, NoArg), hasWarnLogged(loggers[i], m))

PrintServerUrls(urls, optionsHost, i) ==
  Apply([Call("printServerUrls", i, NoMessage, NoArg) EXCEPT
           !.urls = urls, !.host = optionsHost],
        printServerUrls(urls, optionsHost, loggers[i]))

-----------------------------------------------------------------------------
(* Specifications *)

\* the module is loaded: `export const logger = new Logger()`
Init ==
  /\ isTTY = TRUE
  /\ CI = FALSE
  /\ loggers = <<Constructor("Logger", NoOptions, DefaultLevelValues)>>
  /\ warnOnceMessages = {}
  /\ infoOnceMessages = {}
  /\ errorOnceMessages = {}
  /\ errs = [id \in ErrIds |-> [message |-> <<"e1">>, cause |-> "unset"]]
  /\ status = "running"
  /\ exitCode = 0
  /\ call = Call("load", 1, NoMessage, NoArg)
  /\ emitted = <<>>
  /\ result = ReturnedVoid
  /\ loggerCalls = <<>>

ExitValues == {"absent", "undefined", "true", "false"}

\* every method, on loggers constructed without an exit option
Next ==
  \/ \E kind \in Kinds : NewLogger(kind, NoOptions, DefaultLevelValues)
  \/ \E i \in LoggerIds, m \in StrMessages : Trace(i, m)
  \/ \E i \in LoggerIds, m \in StrMessages : Debug(i, m)
  \/ \E i \in LoggerIds, m \in StrMessages : Info(i, m)
  \/ \E i \in LoggerIds, m \in StrMessages : Warn(i, m)
  \/ \E i \in LoggerIds, m \in Messages : Error(i, m, NoArg)
  \/ \E i \in LoggerIds, m \in Messages, exit \in ExitValues \ {"true"},
        e \in {"absent", "K1"} :
          Error(i, m, ErrorOptions(exit, e, "absent"))
  \/ \E i \in LoggerIds, m \in StrMessages : InfoOnce(i, m)
  \/ \E i \in LoggerIds, m \in StrMessages : WarnOnce(i, m)
  \/ \E i \in LoggerIds, m \in Messages : ErrorOnce(i, m)

Spec == Init /\ [][Next]_vars

\* the "-once" methods and the membership queries, on several instances
NextOnce ==
  \/ \E kind \in Kinds, exit \in {"absent", "true"} :
        NewLogger(kind, LoggerOptions(exit, "absent"), DefaultLevelValues)
  \/ \E i \in LoggerIds, m \in StrMessages : Warn(i, m)
  \/ \E i \in LoggerIds, m \in StrMessages : InfoOnce(i, m)
  \/ \E i \in LoggerIds, m \in StrMessages : WarnOnce(i, m)
  \/ \E i \in LoggerIds, m \in Messages : ErrorOnce(i, m)
  \/ \E i \in LoggerIds, m \in Messages : HasErrorLogged(i, m)
  \/ \E i \in LoggerIds, m \in StrMessages : HasWarnLogged(i, m)

SpecOnce == Init /\ [][NextOnce]_vars

\* error() with every shape of per-call options
ErrorMessages == {Str(<<"boom">>)} \cup {Err(id) : id \in ErrIds}

NextError ==
  \/ \E exit \in {"absent", "true", "false"} :
        NewLogger("Logger", LoggerOptions(exit, "absent"), DefaultLevelValues)
  \/ NewLogger("NoopLogger", NoOptions, DefaultLevelValues)
  \/ \E i \in LoggerIds, m \in ErrorMessages : Error(i, m, NoArg)
  \/ \E i \in LoggerIds, m \in ErrorMessages, exit \in ExitValues,
        e \in {"absent", "K1", "K2"}, er \in {"absent", "K3"} :
          Error(i, m, ErrorOptions(exit, e, er))

SpecError == Init /\ [][NextError]_vars

\* the level methods while the environment changes
NextEmit ==
  \/ \E kind \in Kinds, allow \in {"absent", "true", "false"} :
        NewLogger(kind, LoggerOptions("absent", allow), DefaultLevelValues)
  \/ \E tty \in BOOLEAN, ci \in BOOLEAN : SetEnv(tty, ci)
  \/ \E i \in LoggerIds, m \in StrMessages : Trace(i, m)
  \/ \E i \in LoggerIds, m \in StrMessages : Debug(i, m)
  \/ \E i \in LoggerIds, m \in StrMessages : Info(i, m)
  \/ \E i \in LoggerIds, m \in StrMessages : Warn(i, m)
  \/ \E i \in LoggerIds, m \in Messages : Error(i, m, NoArg)

SpecEmit == Init /\ [][NextEmit]_vars

\* the level methods on loggers constructed with other ranks: the default
\* ranks, and every assignment that moves one level away from rank 0
LevelConfigs ==
  {DefaultLevelValues} \cup
  {[l \in Levels |-> IF l = x THEN r ELSE 0] :
     x \in Levels, r \in (0 - MaxRank)..MaxRank}

NextLevels ==
  \/ \E levelValues \in LevelConfigs :
        NewLogger("Logger", NoOptions, levelValues)
  \/ \E i \in LoggerIds, m \in StrMessages : Trace(i, m)
  \/ \E i \in LoggerIds, m \in StrMessages : Debug(i, m)
  \/ \E i \in LoggerIds, m \in StrMessages : Info(i, m)
  \/ \E i \in LoggerIds, m \in StrMessages : Warn(i, m)
  \/ \E i \in LoggerIds, m \in StrMessages : Error(i, m, NoArg)

SpecLevels == Init /\ [][NextLevels]_vars

\* printServerUrls on either kind of logger
UrlLists(urls) == UNION {[1..n -> urls] : n \in 0..MaxUrls}

HostValues == {"undefined", "false", "0.0.0.0"}

NextUrls ==
  \/ \E kind \in Kinds : NewLogger(kind, NoOptions, DefaultLevelValues)
  \/ \E i \in LoggerIds, local \in UrlLists(LocalUrls),
        network \in UrlLists(NetworkUrls), host \in HostValues :
          PrintServerUrls([local |-> local, network |-> network], host, i)

SpecUrls == Init /\ [][NextUrls]_vars

-----------------------------------------------------------------------------
(* Claims *)

\* the lines written to the console among some events
Lines(events) == SelectSeq(events, LAMBDA ev : ev.kind = "write")

OnLogger(c) == c.logger \in LoggerIds /\ loggers[c.logger].kind = "Logger"

OnNoopLogger(c) == c.logger \in LoggerIds /\ loggers[c.logger].kind = "NoopLogger"

JsBool(b) == IF b THEN "true" ELSE "false"

\* the message text an error() call starts from
TextBefore(m) == IF m.t = "str" THEN m.v ELSE errs[m.v[1]].message

C1_Step ==
  /\ \A m \in Messages :
       /\ m \in warnOnceMessages => m \in warnOnceMessages'
       /\ (m \notin warnOnceMessages /\ m \in warnOnceMessages') =>
            (call'.op = "warnOnce" /\ call'.message = m /\ OnLogger(call'))
  /\ (call'.op = "warnOnce" /\ OnLogger(call')) =>
       IF call'.message \in warnOnceMessages
       THEN emitted' = <<>> /\ warnOnceMessages' = warnOnceMessages
       ELSE /\ Len(Lines(emitted')) = 1
            /\ Lines(emitted')[1].level = "warn"
            /\ Lines(emitted')[1].text = call'.message.v
            /\ call'.message \in warnOnceMessages'
  /\ (call'.op = "hasWarnLogged" /\ OnLogger(call')) =>
       /\ result'.value = JsBool(call'.message \in warnOnceMessages)
       /\ warnOnceMessages' = warnOnceMessages

\* C1: on Logger instances, the first warnOnce(m) emits one warn line, every
\* later warnOnce(m), on any instance, emits nothing, and hasWarnLogged(m) is
\* false until that first call and true ever after.
C1_WarnOnceEmitsOnce == (warnOnceMessages = {}) /\ [][C1_Step]_vars

\* a later warnOnce(m), on a second instance, has emitted nothing
C1_Witness ==
  /\ call.op = "warnOnce"
  /\ call.logger = 2
  /\ OnLogger(call)
  /\ call.message \in warnOnceMessages
  /\ emitted = <<>>

C2_Step ==
  /\ \A m \in Messages :
       /\ m \in infoOnceMessages => m \in infoOnceMessages'
       /\ m \in errorOnceMessages => m \in errorOnceMessages'
       /\ (m \notin warnOnceMessages /\ m \in warnOnceMessages') =>
            (call'.op = "warnOnce" /\ call'.message = m)
       /\ (m \notin infoOnceMessages /\ m \in infoOnceMessages') =>
            (call'.op = "infoOnce" /\ call'.message = m)
       /\ (m \notin errorOnceMessages /\ m \in errorOnceMessages') =>
            (call'.op = "errorOnce" /\ call'.message = m)
  /\ (call'.op = "infoOnce" /\ OnLogger(call')) =>
       IF call'.message \in infoOnceMessages
       THEN emitted' = <<>>
       ELSE /\ Len(Lines(emitted')) = 1
            /\ Lines(emitted')[1].level = "info"
            /\ Lines(emitted')[1].text = call'.message.v
            /\ call'.message \in infoOnceMessages'
  /\ (call'.op = "errorOnce" /\ OnLogger(call')) =>
       IF call'.message \in errorOnceMessages
       THEN emitted' = <<>>
       ELSE /\ Len(Lines(emitted')) = 1
            /\ Lines(emitted')[1].level = "error"
            /\ Lines(emitted')[1].text = TextBefore(call'.message)
            /\ call'.message \in errorOnceMessages'
  /\ (call'.op = "hasErrorLogged" /\ OnLogger(call')) =>
       /\ result'.value = JsBool(call'.message \in errorOnceMessages)
       /\ errorOnceMessages' = errorOnceMessages

\* C2: infoOnce and errorOnce emit a message once only, each against its own
\* set: a message recorded through one "-once" method is still emitted the
\* first time through another, hasWarnLogged(m) turns true only through
\* warnOnce(m) and hasErrorLogged(m) only through errorOnce(m).
C2_OnceSetsIndependent ==
  (infoOnceMessages = {} /\ errorOnceMessages = {}) /\ [][C2_Step]_vars

\* errorOnce(m) has emitted its line although warnOnce(m) and infoOnce(m)
\* had recorded m
C2_Witness ==
  /\ call.op = "errorOnce"
  /\ OnLogger(call)
  /\ call.message \in warnOnceMessages
  /\ call.message \in infoOnceMessages
  /\ Len(Lines(emitted)) = 1

\* the exit flag in force for the most recent error() call, as C3 words it
C3_Flag ==
  IF call.options.arg /\ call.options.exit # "absent"
  THEN call.options.exit
  ELSE loggers[call.logger].options.exit

ExitEvents(events) == SelectSeq(events, LAMBDA ev : ev.kind = "exit")

\* C3: on the standard Logger, error(message, options) ends the process with
\* status 1 exactly when the effective exit flag (the per-call exit when the
\* call supplies it, else the constructor's) is true; the error line is
\* written before the exit and the call does not return; otherwise the call
\* returns and the process runs on.
C3_ErrorExitsOnEffectiveFlag ==
  (call.op = "error" /\ OnLogger(call)) =>
    IF C3_Flag = "true"
    THEN /\ result.outcome = "exited"
         /\ status = "exited"
         /\ exitCode = 1
         /\ Len(emitted) >= 2
         /\ emitted[Len(emitted)].kind = "exit"
         /\ emitted[Len(emitted)].code = 1
         /\ emitted[Len(emitted) - 1].kind = "write"
         /\ emitted[Len(emitted) - 1].level = "error"
         /\ Len(ExitEvents(emitted)) = 1
    ELSE /\ result.outcome = "returned"
         /\ status = "running"
         /\ ExitEvents(emitted) = <<>>
         /\ Len(Lines(emitted)) = 1

\* a call that sets no exit of its own has ended the process of a Logger
\* constructed with exit: true, after writing its line
C3_Witness ==
  /\ call.op = "error"
  /\ OnLogger(call)
  /\ loggers[call.logger].options.exit = "true"
  /\ call.options.arg
  /\ call.options.exit = "absent"
  /\ status = "exited"
  /\ exitCode = 1
  /\ Len(Lines(emitted)) = 1

\* the cause a call supplies, under either field name
SuppliedCause(o) == IF o.e # "absent" THEN o.e ELSE o.error

C4_Step ==
  (/\ call'.op = "error"
   /\ OnNoopLogger(call')
   /\ call'.options.arg
   /\ call'.options.exit = "true") =>
    LET m == call'.message
        supplied == SuppliedCause(call'.options)
    IN /\ result'.outcome = "threw"
       /\ result'.thrown.type = "Error"
       /\ status' = "running"
       /\ emitted' = <<>>
       /\ IF m.t = "err"
          THEN /\ result'.thrown.ref = m.v[1]
               /\ result'.thrown.message = errs[m.v[1]].message
               /\ errs'[m.v[1]].message = errs[m.v[1]].message
               /\ errs'[m.v[1]].cause = result'.thrown.cause
               /\ result'.thrown.cause =
                    IF supplied # "absent" THEN supplied ELSE errs[m.v[1]].cause
          ELSE /\ result'.thrown.ref = "new"
               /\ result'.thrown.message = m.v
               /\ errs' = errs
               /\ result'.thrown.cause =
                    IF supplied # "absent" THEN supplied ELSE "unset"

\* C4: on NoopLogger, error(message, {exit: true, ...}) raises an error and
\* neither exits nor writes; the raised error is message itself when message
\* is an error value, else a new error carrying message; its cause is the
\* supplied cause (under either field name) when one was supplied, and is
\* not assigned otherwise (unset on a new error).
C4_NoopErrorRaises == [][C4_Step]_vars

\* the error value E1 was raised with the cause supplied as `error`
C4_Witness ==
  /\ call.op = "error"
  /\ OnNoopLogger(call)
  /\ call.options.exit = "true"
  /\ call.options.e = "absent"
  /\ call.options.error = "K3"
  /\ result.outcome = "threw"
  /\ result.thrown.ref = "E1"
  /\ result.thrown.cause = "K3"
  /\ status = "running"

NonExitOps ==
  {"trace", "debug", "info", "warn", "infoOnce", "warnOnce", "errorOnce", "error"}

\* C5: on a Logger or NoopLogger constructed without an exit option, every
\* call of a level or "-once" method, and every call of error whose options
\* do not set exit to true (or that passes no options), returns normally.
C5_NonExitCallsReturn ==
  (/\ call.op \in NonExitOps
   /\ call.logger \in LoggerIds
   /\ loggers[call.logger].options.exit = "absent"
   /\ call.options.exit # "true") =>
    /\ result.outcome = "returned"
    /\ status = "running"

\* the text after "Caused by: ": the cause's stack when it has one, else its
\* string form
C6_CausePart(k) == IF CauseHasStack(k) THEN CauseStack(k) ELSE CauseString(k)

\* C6: on the standard Logger, error("boom", {cause}) renders the message
\* "boom" followed by "\nCaused by: " and the cause's stack when it has one,
\* else the cause's string form; with no cause the message is rendered
\* unchanged.
C6_CauseAppended ==
  (call.op = "error" /\ OnLogger(call)) =>
    LET supplied == SuppliedCause(call.options)
        lines == Lines(emitted)
    IN /\ Len(lines) = 1
       /\ lines[1].isError
       /\ (call.message.t = "str" /\ supplied # "absent") =>
            lines[1].text =
              call.message.v \o <<"\nCaused by: ">> \o C6_CausePart(supplied)
       /\ (call.message.t = "str" /\ supplied = "absent") =>
            lines[1].text = call.message.v
       /\ (call.message.t = "err" /\ supplied = "absent") =>
            lines[1].text = errs[call.message.v[1]].message

\* error("boom", {error: K3}) was rendered with the empty stack of K3 after
\* "Caused by: "
C6_Witness ==
  /\ call.op = "error"
  /\ OnLogger(call)
  /\ call.message = Str(<<"boom">>)
  /\ call.options.e = "absent"
  /\ call.options.error = "K3"
  /\ Lines(emitted)[1].text = <<"boom", "\nCaused by: ">>

HasToken(text, token) == \E k \in DOMAIN text : text[k] = token

\* C7: printServerUrls calls logger.info once per local url (a "Local" line
\* each, in list order), then once per network url (a "Network" line each,
\* in list order), then once more with the --host hint if and only if the
\* network list is empty and no host option was given; it calls no other
\* logger method.
C7_PrintServerUrls ==
  call.op = "printServerUrls" =>
    LET local == call.urls.local
        network == call.urls.network
        hint == network = <<>> /\ call.host = "undefined"
        n == Len(loggerCalls)
    IN /\ n = Len(local) + Len(network) + (IF hint THEN 1 ELSE 0)
       /\ \A i \in 1..n : loggerCalls[i].method = "info"
       /\ \A i \in 1..Len(local) :
            loggerCalls[i].message.v = <<"Local", ":   ", local[i]>>
       /\ \A i \in 1..Len(network) :
            loggerCalls[Len(local) + i].message.v = <<"Network", ": ", network[i]>>
       /\ hint => HasToken(loggerCalls[n].message.v, "--host")
       /\ ~hint => \A i \in 1..n : ~HasToken(loggerCalls[i].message.v, "--host")
       /\ OnLogger(call) =>
            /\ Len(Lines(emitted)) = n
            /\ \A i \in 1..n :
                 /\ Lines(emitted)[i].text = loggerCalls[i].message.v
                 /\ Lines(emitted)[i].level = "info"
       /\ OnNoopLogger(call) => emitted = <<>>

\* one local url, no network url and no host option: a "Local" line and the
\* hint have been printed
C7_Witness ==
  /\ call.op = "printServerUrls"
  /\ call.urls = [local |-> <<"http://localhost:3000/">>, network |-> <<>>]
  /\ call.host = "undefined"
  /\ Len(loggerCalls) = 2
  /\ HasToken(loggerCalls[2].message.v, "--host")

\* C8 as stated: lines of trace, debug, info and warn go to standard output
\* and lines of error to standard error; warn and error each use a console
\* method of their own, trace and debug the default "log".
C8_WarnToStdout ==
  \A i \in DOMAIN emitted :
    (emitted[i].kind = "write" /\ OnLogger(call)) =>
      /\ emitted[i].level \in {"trace", "debug", "info", "warn"} =>
           emitted[i].stream = "stdout"
      /\ emitted[i].level = "error" => emitted[i].stream = "stderr"
      /\ emitted[i].level \in {"trace", "debug"} => emitted[i].method = "log"
      /\ emitted[i].level \in {"warn", "error"} =>
           emitted[i].method \notin {"log"}

\* C8, amended: lines of trace, debug and info go to standard output through
\* console.log (info by its entry in LOGGER_METHOD, trace and debug by the
\* fallback), lines of warn go to standard error through console.warn and
\* lines of error to standard error through console.error.
C8_StreamByLevel ==
  \A i \in DOMAIN emitted :
    (emitted[i].kind = "write" /\ OnLogger(call)) =>
      /\ emitted[i].level = call.op
      /\ emitted[i].level \in {"trace", "debug", "info"} =>
           emitted[i].method = "log" /\ emitted[i].stream = "stdout"
      /\ emitted[i].level = "warn" =>
           emitted[i].method = "warn" /\ emitted[i].stream = "stderr"
      /\ emitted[i].level = "error" =>
           emitted[i].method = "error" /\ emitted[i].stream = "stderr"

\* a warn line has been written to standard error
C8_Witness ==
  /\ call.op = "warn"
  /\ OnLogger(call)
  /\ Len(Lines(emitted)) = 1
  /\ Lines(emitted)[1].stream = "stderr"

\* C9: whatever integer ranks the Logger was constructed with, every call of
\* trace, debug, info, warn or error writes exactly one line, at that level.
C9_NoLevelFiltered ==
  (call.op \in Levels /\ OnLogger(call)) =>
    /\ Len(Lines(emitted)) = 1
    /\ Lines(emitted)[1].level = call.op
    /\ Lines(emitted)[1].text = TextBefore(call.message)

\* a debug line was written by a Logger that ranks debug below every other
\* level
C9_Witness ==
  /\ call.op = "debug"
  /\ OnLogger(call)
  /\ \A lv \in Levels \ {"debug"} :
       loggers[call.logger].levelValues["debug"] < loggers[call.logger].levelValues[lv]
  /\ Len(Lines(emitted)) = 1

ClearEvents(events) == SelectSeq(events, LAMBDA ev : ev.kind = "clear")

\* canClearScreen as the constructor computes it
C10_Constructed ==
  call.op \in {"load", "new"} =>
    loggers[call.logger].canClearScreen =
      (loggers[call.logger].options.allowClearScreen = "true" /\ isTTY /\ ~CI)

\* canClearScreen of an existing Logger does not change
C10_Step ==
  \A i \in 1..Len(loggers) :
    loggers'[i].canClearScreen = loggers[i].canClearScreen

\* every line follows a screen clear, or there is no clear at all
C10_Emission ==
  (call.op \in Levels /\ call.logger \in LoggerIds) =>
    IF loggers[call.logger].canClearScreen
    THEN /\ \A i \in DOMAIN emitted :
              emitted[i].kind = "write" =>
                i > 1 /\ emitted[i - 1].kind = "clear"
         /\ Len(ClearEvents(emitted)) = Len(Lines(emitted))
    ELSE ClearEvents(emitted) = <<>>

\* C10: canClearScreen is computed at construction as allowClearScreen and
\* interactive terminal and not CI, and never changes afterwards, whatever
\* the environment does; each line a Logger emits comes right after one
\* screen clear if that value is true, and the Logger never clears the
\* screen if it is false.
C10_CanClearScreenFixed ==
  []C10_Constructed /\ [][C10_Step]_vars /\ []C10_Emission

\* a Logger constructed in an interactive terminal outside CI has cleared
\* the screen before its line although CI is set by now
C10_Witness ==
  /\ call.op = "warn"
  /\ OnLogger(call)
  /\ loggers[call.logger].canClearScreen
  /\ CI
  /\ Len(emitted) = 2
  /\ emitted[1].kind = "clear"
  /\ emitted[2].kind = "write"

====
